---- MODULE Spec2Model ----
(***************************************************************************)
(* Model of knn_bandits/bandits.py: class ContextualBandit, a greedy       *)
(* linear contextual bandit with replay-based offline policy evaluation.   *)
(*                                                                         *)
(* Numbers.  The program computes with Python floats.  The model computes  *)
(* with integers: contexts and the learning rate are whole numbers,        *)
(* weights and rewards are counted in halves (a model weight 1 is the      *)
(* float 0.5).  Every expression of the program is linear in (weights,     *)
(* rewards), so this scaling is exact, and float arithmetic on such small  *)
(* dyadic values is exact too.                                             *)
(*                                                                         *)
(* Vectors are functions on 0..n-1, as Python lists are indexed.  Argument *)
(* arm indices are non-negative (Python's negative indices are not used).  *)
(***************************************************************************)
EXTENDS Integers, Sequences, FiniteSets, TLC

\* ---------------------------------------------------------------- bounds
\* records in a historical dataset
MaxRecords == 2
\* executions of update_weights in one behaviour, rounds of run() included
MaxUpdates == 2

\* ------------------------------------------------------- input domains
\* num_arms and num_features passed to the constructor, zero included: the
\* constructor takes what it is given
ArmCounts == {0, 1, 2}
FeatureCounts == {0, 1, 2}
\* arm indices and rewards (in halves) found in historical records
LoggedArms == {0, 1}
LoggedRewards == {-1, 0, 1}
\* values random.random() can give an initial weight, in halves: 0.0, 0.5
InitWeightValues == {0, 1}
\* values a component of a context may take
ContextValues == {0, 1}
\* rewards, in halves
Rewards == {0, 1}
\* learning rates passed to the constructor
LearningRates == {1}

Vectors(n, S) == [0..(n - 1) -> S]
LenV(v) == Cardinality(DOMAIN v)
EmptyVector == <<>>
\* the contexts of every length from lo to hi
ContextsOf(lo, hi) == UNION {Vectors(n, ContextValues) : n \in lo..hi}
Min(a, b) == IF a <= b THEN a ELSE b

VARIABLES
    num_arms,        \* self.num_arms
    num_features,    \* self.num_features
    learning_rate,   \* self.learning_rate
    weights,         \* self.weights: arm -> feature -> weight
    pc,              \* position of run(): idle, context, choose, reward, update
    T,               \* run(): number of rounds asked for
    t,               \* run(): loop variable, rounds completed
    context,         \* the context argument / local of the operation
    chosen_arm,      \* the arm argument / local of the operation
    reward,          \* the reward argument / local of the operation
    historical_data, \* the argument of offline_policy_evaluation
    lastOp,          \* the operation called last
    err,             \* the exception it raised, "none" when it returned
    ret,             \* the number it returned (dot product, arm index)
    average_reward,  \* what offline_policy_evaluation returned, num / den
    before,          \* history: self.weights when the last operation began
    log,             \* history: the calls made by the current run()
    nupdates         \* executions of update_weights asked for so far

vars == <<num_arms, num_features, learning_rate, weights, pc, T, t, context,
          chosen_arm, reward, historical_data, lastOp, err, ret,
          average_reward, before, log, nupdates>>

Arms == 0..(num_arms - 1)
NoAverage == [num |-> 0, den |-> 1]

\* ------------------------------------------------------ pure functions

\* initialize_weights: num_features independent draws
initialize_weights(n) == Vectors(n, InitWeightValues)

\* sum(w * c for w, c in zip(weights, context)): zip stops at the shorter
RECURSIVE SumZip(_, _, _)
SumZip(w, c, n) == IF n = 0 THEN 0 ELSE SumZip(w, c, n - 1) + w[n - 1] * c[n - 1]

compute_dot_product(w, c) == SumZip(w, c, Min(LenV(w), LenV(c)))

\* values = [dot(weights[arm], context) for arm in range(num_arms)]
Values(W, c) == [arm \in DOMAIN W |-> compute_dot_product(W[arm], c)]

\* max(values): ValueError on an empty list
MaxOf(v) == CHOOSE m \in {v[a] : a \in DOMAIN v} : \A a \in DOMAIN v : v[a] <= m

\* values.index(m): the first index holding m
IndexOf(v, m) == CHOOSE a \in DOMAIN v : v[a] = m /\ \A b \in DOMAIN v : v[b] = m => a <= b

\* mutant of choose_arm: the last index holding the maximum, not the first
choose_arm_last_max(W, c) ==
    IF DOMAIN W = {}
    THEN [err |-> "ValueError", val |-> 0]
    ELSE LET v == Values(W, c)
         IN [err |-> "none",
             val |-> CHOOSE a \in DOMAIN v :
                        v[a] = MaxOf(v) /\ \A b \in DOMAIN v : v[b] = MaxOf(v) => b <= a]

choose_arm(W, c) ==
    IF DOMAIN W = {}
    THEN [err |-> "ValueError", val |-> 0]
    ELSE [err |-> "none", val |-> IndexOf(Values(W, c), MaxOf(Values(W, c)))]

\* post_update_weights: pass
post_update_weights(W, arm) == W

\* the loop of update_weights from feature i on; dotp is taken afresh from
\* the current weights at every i
RECURSIVE UpdateLoop(_, _, _, _, _, _, _)
UpdateLoop(W, lr, nf, arm, c, r, i) ==
    IF i >= nf
    THEN [err |-> "none", weights |-> post_update_weights(W, arm)]
    ELSE IF arm \notin DOMAIN W
    THEN [err |-> "IndexError", weights |-> W]
    ELSE IF i \notin DOMAIN c
    THEN [err |-> "IndexError", weights |-> W]
    ELSE LET dotp == compute_dot_product(W[arm], c)
             W2 == [W EXCEPT ![arm][i] = @ + lr * (r - dotp) * c[i]]
         IN UpdateLoop(W2, lr, nf, arm, c, r, i + 1)

\* mutant of update_weights: the arms share one list of weights, so the
\* update of one arm shows in all
update_weights_shared_rows(W, lr, nf, arm, c, r) ==
    LET res == UpdateLoop(W, lr, nf, arm, c, r, 0)
    IN IF arm \in DOMAIN W
       THEN [err |-> res.err, weights |-> [a \in DOMAIN W |-> res.weights[arm]]]
       ELSE res

update_weights(W, lr, nf, arm, c, r) == UpdateLoop(W, lr, nf, arm, c, r, 0)

\* mutant of TotalReward: the reward of every record is added, whether or
\* not the policy chooses the logged arm
RECURSIVE TotalRewardAllRecords(_, _, _)
TotalRewardAllRecords(W, data, n) ==
    IF n = 0
    THEN [err |-> "none", val |-> 0]
    ELSE LET sofar == TotalRewardAllRecords(W, data, n - 1)
             chosen == choose_arm(W, data[n].context)
         IN IF sofar.err # "none" THEN sofar
            ELSE IF chosen.err # "none" THEN [err |-> chosen.err, val |-> 0]
            ELSE [err |-> "none", val |-> sofar.val + data[n].reward]

\* the loop of offline_policy_evaluation over the first n records
RECURSIVE TotalReward(_, _, _)
TotalReward(W, data, n) ==
    IF n = 0
    THEN [err |-> "none", val |-> 0]
    ELSE LET sofar == TotalReward(W, data, n - 1)
             rec == data[n]
             chosen == choose_arm(W, rec.context)
         IN IF sofar.err # "none" THEN sofar
            ELSE IF chosen.err # "none" THEN [err |-> chosen.err, val |-> 0]
            ELSE IF chosen.val = rec.actual_arm
            THEN [err |-> "none", val |-> sofar.val + rec.reward]
            ELSE sofar

\* total_reward / num_samples, kept as the fraction num / den
offline_policy_evaluation(W, data) ==
    LET total == TotalReward(W, data, Len(data))
        num_samples == Len(data)
    IN IF total.err # "none" THEN [err |-> total.err, val |-> NoAverage]
       ELSE IF num_samples = 0 THEN [err |-> "ZeroDivisionError", val |-> NoAverage]
       ELSE [err |-> "none", val |-> [num |-> total.val, den |-> num_samples]]

\* ------------------------------------------------------------ inputs
\* a context passed to a method: of the policy's dimension, one feature
\* shorter (when there is a feature) or one longer
Contexts == ContextsOf(IF num_features = 0 THEN 0 ELSE num_features - 1, num_features + 1)
\* a context returned by run()'s provider: of the policy's dimension or,
\* breaking the provider's contract, one feature short
ProvidedContexts == ContextsOf(IF num_features = 0 THEN 0 ELSE num_features - 1, num_features)
\* a historical record: (context, actual_arm, reward); the log was taken with
\* contexts of the policy's own dimension
Records == [context : Vectors(num_features, ContextValues),
            actual_arm : LoggedArms,
            reward : LoggedRewards]
Datasets == UNION {[1..n -> Records] : n \in 0..MaxRecords}

\* ------------------------------------------------------------ states
\* __init__: stores its arguments unchecked and draws the weights
Init ==
    /\ num_arms \in ArmCounts
    /\ num_features \in FeatureCounts
    /\ learning_rate \in LearningRates
    /\ weights \in [0..(num_arms - 1) -> initialize_weights(num_features)]
    /\ pc = "idle"
    /\ T = 0
    /\ t = 0
    /\ context = EmptyVector
    /\ chosen_arm = 0
    /\ reward = 0
    /\ historical_data = <<>>
    /\ lastOp = "none"
    /\ err = "none"
    /\ ret = 0
    /\ average_reward = NoAverage
    /\ before = weights
    /\ log = <<>>
    /\ nupdates = 0

\* A new call from outside: no run() is in progress and the call before has
\* returned.
CanCall == pc = "idle" /\ lastOp = "none"

Config == <<num_arms, num_features, learning_rate>>

\* compute_dot_product(self.weights[arm], context), the score of an arm
Score ==
    /\ CanCall
    /\ \E arm \in Arms, c \in Contexts :
        /\ chosen_arm' = arm
        /\ context' = c
        /\ ret' = compute_dot_product(weights[arm], c)
    /\ err' = "none"
    /\ lastOp' = "compute_dot_product"
    /\ before' = weights
    /\ reward' = 0 /\ historical_data' = <<>> /\ average_reward' = NoAverage
    /\ log' = <<>> /\ T' = 0 /\ t' = 0
    /\ UNCHANGED <<Config, weights, pc, nupdates>>

\* choose_arm(context)
ChooseArm ==
    /\ CanCall
    /\ \E c \in Contexts :
        LET res == choose_arm(weights, c) IN
        /\ context' = c
        /\ err' = res.err
        /\ ret' = res.val
    /\ lastOp' = "choose_arm"
    /\ before' = weights
    /\ chosen_arm' = 0 /\ reward' = 0 /\ historical_data' = <<>>
    /\ average_reward' = NoAverage /\ log' = <<>> /\ T' = 0 /\ t' = 0
    /\ UNCHANGED <<Config, weights, pc, nupdates>>

\* update_weights(chosen_arm, context, reward); the arm is any index from 0
\* up to one past the last arm
UpdateWeights ==
    /\ CanCall
    /\ nupdates < MaxUpdates
    /\ \E arm \in 0..num_arms, c \in Contexts, r \in Rewards :
        LET res == update_weights(weights, learning_rate, num_features, arm, c, r) IN
        /\ chosen_arm' = arm
        /\ context' = c
        /\ reward' = r
        /\ weights' = res.weights
        /\ err' = res.err
    /\ lastOp' = "update_weights"
    /\ before' = weights
    /\ nupdates' = nupdates + 1
    /\ ret' = 0 /\ historical_data' = <<>> /\ average_reward' = NoAverage
    /\ log' = <<>> /\ T' = 0 /\ t' = 0
    /\ UNCHANGED <<Config, pc>>

\* mutant of OfflineEvaluate: the policy learns from the first record while
\* it evaluates
OfflineEvaluateLearning ==
    /\ CanCall
    /\ \E data \in Datasets :
        LET res == offline_policy_evaluation(weights, data) IN
        /\ historical_data' = data
        /\ err' = res.err
        /\ average_reward' = res.val
        /\ weights' = IF Len(data) = 0 THEN weights
                      ELSE update_weights(weights, learning_rate, num_features,
                                          data[1].actual_arm, data[1].context,
                                          data[1].reward).weights
    /\ lastOp' = "offline_policy_evaluation"
    /\ before' = weights
    /\ chosen_arm' = 0 /\ reward' = 0 /\ context' = EmptyVector /\ ret' = 0
    /\ log' = <<>> /\ T' = 0 /\ t' = 0
    /\ UNCHANGED <<Config, pc, nupdates>>

\* offline_policy_evaluation(historical_data)
OfflineEvaluate ==
    /\ CanCall
    /\ \E data \in Datasets :
        LET res == offline_policy_evaluation(weights, data) IN
        /\ historical_data' = data
        /\ err' = res.err
        /\ average_reward' = res.val
    /\ lastOp' = "offline_policy_evaluation"
    /\ before' = weights
    /\ chosen_arm' = 0 /\ reward' = 0 /\ context' = EmptyVector /\ ret' = 0
    /\ log' = <<>> /\ T' = 0 /\ t' = 0
    /\ UNCHANGED <<Config, weights, pc, nupdates>>

\* run(T, get_current_context, get_reward): the call; range(T) is empty for
\* T = 0 and run returns at once
RunStart ==
    /\ CanCall
    /\ \E rounds \in 0..(MaxUpdates - nupdates) :
        /\ T' = rounds
        /\ pc' = IF rounds > 0 THEN "context" ELSE "idle"
        /\ nupdates' = nupdates + rounds
    /\ t' = 0
    /\ lastOp' = "run"
    /\ err' = "none"
    /\ before' = weights
    /\ log' = <<>>
    /\ chosen_arm' = 0 /\ reward' = 0 /\ context' = EmptyVector /\ ret' = 0
    /\ historical_data' = <<>> /\ average_reward' = NoAverage
    /\ UNCHANGED <<Config, weights>>

RunFrame == <<Config, T, lastOp, before, nupdates, ret, historical_data, average_reward>>

\* context = get_current_context(): the provider is the caller's, it may
\* return a list of any length
RunGetContext ==
    /\ pc = "context"
    /\ \E c \in ProvidedContexts : context' = c
    /\ log' = Append(log, [op |-> "get_current_context", arm |-> 0])
    /\ pc' = "choose"
    /\ UNCHANGED <<RunFrame, weights, t, chosen_arm, reward, err>>

\* mutant of RunChooseArm: the arm is chosen on the weights run() began
\* with, not on those the round before left
RunChooseArmStale ==
    /\ pc = "choose"
    /\ LET res == choose_arm(before, context) IN
        /\ err' = res.err
        /\ chosen_arm' = res.val
        /\ pc' = IF res.err = "none" THEN "reward" ELSE "idle"
        /\ log' = Append(log, [op |-> "choose_arm", arm |-> res.val])
    /\ UNCHANGED <<RunFrame, weights, t, context, reward>>

\* chosen_arm = self.choose_arm(context)
RunChooseArm ==
    /\ pc = "choose"
    /\ LET res == choose_arm(weights, context) IN
        /\ err' = res.err
        /\ chosen_arm' = res.val
        /\ pc' = IF res.err = "none" THEN "reward" ELSE "idle"
        /\ log' = Append(log, [op |-> "choose_arm", arm |-> res.val])
    /\ UNCHANGED <<RunFrame, weights, t, context, reward>>

\* reward = get_reward(chosen_arm)
RunGetReward ==
    /\ pc = "reward"
    /\ \E r \in Rewards : reward' = r
    /\ log' = Append(log, [op |-> "get_reward", arm |-> chosen_arm])
    /\ pc' = "update"
    /\ UNCHANGED <<RunFrame, weights, t, context, chosen_arm, err>>

\* self.update_weights(chosen_arm, context, reward) and the loop's next turn
RunUpdate ==
    /\ pc = "update"
    /\ LET res == update_weights(weights, learning_rate, num_features,
                                 chosen_arm, context, reward) IN
        /\ weights' = res.weights
        /\ err' = res.err
        /\ log' = Append(log, [op |-> "update_weights", arm |-> chosen_arm])
        /\ t' = IF res.err = "none" THEN t + 1 ELSE t
        /\ pc' = IF res.err = "none" /\ t + 1 < T THEN "context" ELSE "idle"
    /\ UNCHANGED <<RunFrame, context, chosen_arm, reward>>

\* The call returns: its arguments, locals and result go out of scope, the
\* object alone stays for the next call.
Return ==
    /\ pc = "idle"
    /\ lastOp # "none"
    /\ lastOp' = "none"
    /\ err' = "none"
    /\ before' = weights
    /\ context' = EmptyVector /\ chosen_arm' = 0 /\ reward' = 0 /\ ret' = 0
    /\ historical_data' = <<>> /\ average_reward' = NoAverage
    /\ log' = <<>> /\ T' = 0 /\ t' = 0
    /\ UNCHANGED <<Config, weights, pc, nupdates>>

Next ==
    \/ Score
    \/ ChooseArm
    \/ UpdateWeights
    \/ OfflineEvaluate
    \/ RunStart
    \/ RunGetContext
    \/ RunChooseArm
    \/ RunGetReward
    \/ RunUpdate
    \/ Return

Spec == Init /\ [][Next]_vars

\* ------------------------------------------------------------ typing
TypeOK ==
    /\ num_arms \in ArmCounts
    /\ num_features \in FeatureCounts
    /\ DOMAIN weights = Arms
    /\ \A a \in Arms : DOMAIN weights[a] = 0..(num_features - 1)
    /\ pc \in {"idle", "context", "choose", "reward", "update"}
    /\ err \in {"none", "IndexError", "ValueError", "ZeroDivisionError"}
    /\ t \in 0..MaxUpdates /\ T \in 0..MaxUpdates
    /\ nupdates \in 0..MaxUpdates

\* ------------------------------------------------------------ claims

\* a is an arm of maximal score for c under W, and the lowest such arm
IsGreedy(a, W, c) ==
    /\ a \in DOMAIN W
    /\ \A b \in DOMAIN W : compute_dot_product(W[b], c) <= compute_dot_product(W[a], c)
    /\ \A b \in DOMAIN W : b < a => compute_dot_product(W[b], c) < compute_dot_product(W[a], c)

\* one gradient step on w, the prediction taken once from w itself
SingleStep(w, lr, c, r) ==
    [i \in DOMAIN w |-> w[i] + lr * (r - compute_dot_product(w, c)) * c[i]]

\* update_weights(chosen_arm, context, reward) has returned, for an arm of
\* the policy and a context of its dimension
UpdateReturned ==
    /\ lastOp = "update_weights"
    /\ err = "none"
    /\ chosen_arm \in Arms
    /\ LenV(context) = num_features

\* C1: after UpdateWeights(arm, context, reward) every component i of the
\* arm's weights is w_i + learning_rate * (reward - dot(w, context)) * context_i
\* with w the weights before the call: one prediction serves all components.
C1_SingleStepUpdate ==
    UpdateReturned =>
        weights[chosen_arm] = SingleStep(before[chosen_arm], learning_rate, context, reward)

\* C2: with at least one arm and a context of the policy's dimension,
\* SelectArm returns an arm index whose score is maximal and which is the
\* lowest index of that score; the answer is thereby a function of weights
\* and context alone.
C2_SelectArmLowestMax ==
    (lastOp = "choose_arm" /\ num_arms >= 1 /\ LenV(context) = num_features) =>
        (err = "none" /\ ret \in 0..(num_arms - 1) /\ IsGreedy(ret, weights, context))

C2_Witness ==
    /\ lastOp = "choose_arm"
    /\ num_arms = 2
    /\ num_features = 2
    /\ LenV(context) = num_features
    /\ nupdates > 0
    /\ compute_dot_product(weights[0], context) = compute_dot_product(weights[1], context)
    /\ compute_dot_product(weights[0], context) # 0
    /\ ret = 0

\* C3: a step changes the weights of no arm other than the arm given to
\* update_weights (post_update_weights included), be it called directly or
\* by a round of run; so arms never chosen keep their weights through any
\* sequence of calls.
C3_UpdateLocality ==
    [][\A a \in Arms :
          weights'[a] # weights[a] =>
              (lastOp' \in {"update_weights", "run"} /\ a = chosen_arm')]_vars

C3_Witness ==
    /\ lastOp = "update_weights"
    /\ err = "none"
    /\ num_arms = 2
    /\ nupdates = 2
    /\ chosen_arm \in Arms
    /\ weights[chosen_arm] # before[chosen_arm]
    /\ \A a \in Arms : a # chosen_arm => weights[a] = before[a]

\* the calls of one round of run, in order
RunOrder == <<"get_current_context", "choose_arm", "get_reward", "update_weights">>

\* C4: run makes its rounds one after another, each round calling
\* get_current_context, choose_arm, get_reward, update_weights in this order
\* and once; get_reward and update_weights get the arm choose_arm returned;
\* the arm is chosen on the weights as they are when the round begins, i.e.
\* as the round before left them; a run that returns has made exactly T rounds.
C4_RunRounds ==
    lastOp = "run" =>
        /\ \A k \in 1..Len(log) : log[k].op = RunOrder[((k - 1) % 4) + 1]
        /\ \A k \in 2..Len(log) :
              log[k].op \in {"get_reward", "update_weights"} => log[k].arm = log[k - 1].arm
        /\ pc \in {"reward", "update"} => IsGreedy(chosen_arm, weights, context)
        /\ pc = "context" => (Len(log) = 4 * t /\ t < T)
        /\ pc = "choose" => (Len(log) = 4 * t + 1 /\ t < T)
        /\ pc = "reward" => (Len(log) = 4 * t + 2 /\ t < T /\ log[Len(log)].arm = chosen_arm)
        /\ pc = "update" => (Len(log) = 4 * t + 3 /\ t < T)
        /\ (pc = "idle" /\ err = "none") => (t = T /\ Len(log) = 4 * T)

C4_Witness ==
    /\ lastOp = "run"
    /\ pc = "idle"
    /\ err = "none"
    /\ T = 2
    /\ Len(log) = 8
    /\ log[2].arm # log[6].arm
    /\ weights # before

\* C5: a context whose length is not num_features makes Score, SelectArm
\* and UpdateWeights fail with DimensionMismatch.
C5_DimensionMismatch ==
    (/\ lastOp \in {"compute_dot_product", "choose_arm", "update_weights"}
     /\ LenV(context) # num_features) =>
        err = "DimensionMismatch"

\* C6: a call that raises leaves the weights as they were when it began.
C6_NoPartialFailure ==
    err # "none" => weights = before

\* C7: OfflineEvaluate of no records raises EmptyDataset.
C7_EmptyDataset ==
    (lastOp = "offline_policy_evaluation" /\ Len(historical_data) = 0) =>
        err = "EmptyDataset"

\* C8: no policy with fewer than one arm or fewer than one feature exists:
\* the constructor refuses such arguments.
C8_InvalidConfigurationRejected ==
    num_arms >= 1 /\ num_features >= 1

\* the logged rewards of the first n records whose logged arm is the greedy
\* arm of their context under W
RECURSIVE SumMatching(_, _, _)
SumMatching(W, data, n) ==
    IF n = 0 THEN 0
    ELSE SumMatching(W, data, n - 1)
         + (IF IsGreedy(data[n].actual_arm, W, data[n].context) THEN data[n].reward ELSE 0)

\* C9: with at least one arm and at least one record, OfflineEvaluate
\* returns (the sum of the logged rewards of the records whose logged arm is
\* the arm SelectArm gives their context) / (the number of records); when all
\* rewards lie in [0, r_max] the result lies in [0, r_max].
C9_OfflineAverage ==
    (lastOp = "offline_policy_evaluation" /\ num_arms >= 1 /\ Len(historical_data) >= 1) =>
        /\ err = "none"
        /\ average_reward.den = Len(historical_data)
        /\ average_reward.num = SumMatching(weights, historical_data, Len(historical_data))
        /\ \A rmax \in LoggedRewards :
              (\A k \in 1..Len(historical_data) :
                  0 <= historical_data[k].reward /\ historical_data[k].reward <= rmax)
              => (0 <= average_reward.num /\ average_reward.num <= rmax * average_reward.den)

C9_Witness ==
    /\ lastOp = "offline_policy_evaluation"
    /\ err = "none"
    /\ nupdates > 0
    /\ Len(historical_data) = 2
    /\ historical_data[1].reward = 1
    /\ historical_data[2].reward = 1
    /\ IsGreedy(historical_data[1].actual_arm, weights, historical_data[1].context)
    /\ ~IsGreedy(historical_data[2].actual_arm, weights, historical_data[2].context)
    /\ average_reward = [num |-> 1, den |-> 2]

\* C10: the weights change only in update_weights, called directly or by a
\* round of run: Score, SelectArm and OfflineEvaluate (and every other step)
\* leave every arm's weights as they are.
C10_OnlyUpdateMutates ==
    [][weights' # weights =>
          (lastOp' = "update_weights" \/ (lastOp' = "run" /\ pc = "update"))]_vars

C10_Witness ==
    /\ lastOp = "offline_policy_evaluation"
    /\ err = "none"
    /\ Len(historical_data) = 2
    /\ nupdates > 0
    /\ weights = before
    /\ average_reward.num # 0

====
